---- MODULE Spec2Model ----
(***************************************************************************)
(* Model of the Smart Money Tracker bot (src/main.py): the periodic scan   *)
(* cycle scan_for_signals, the dedup set SmartMoneyTracker.alerted_tokens, *)
(* the calls table (AlertRecords) and the background peak tracker          *)
(* update_peak_prices.                                                     *)
(*                                                                         *)
(* Every coroutine runs on one asyncio event loop: the code between two    *)
(* awaits that suspend (a network call, asyncio.sleep) is one atomic step, *)
(* and each action below is one such step.                                 *)
(***************************************************************************)
EXTENDS Integers, Sequences, FiniteSets, TLC

VARIABLES
    alerted_tokens,  \* SmartMoneyTracker.alerted_tokens: set of pair addresses
    recorded,        \* history: pair addresses in the order they were added to alerted_tokens
    calls,           \* the calls table, in insertion (= call_time) order
    issuedMax,       \* history, per row: max of its first peak and every new_peak issued for its pair
    bot_data,        \* context.bot_data: whether 'active_chats' exists, and the set
    cycle,           \* the executions of scan_for_signals, one per timer tick
    run,             \* the update_peak_prices tasks, one per timer tick
    ticksLeft,       \* timer ticks still to fire
    snapsLeft,       \* pair snapshots the search API will still return
    cmdsLeft,        \* /start and /stop commands still to arrive
    market,          \* the outside: the pair snapshots the search API may return, the terms it
                     \* is down for, the chats that have blocked the bot, the pairs the
                     \* pairs API fails for, the price it quotes (0: any price)
    probe            \* a direct call of determine_tier or calculate_metrics: input and result

vars == <<alerted_tokens, recorded, calls, issuedMax, bot_data, cycle, run,
          ticksLeft, snapsLeft, cmdsLeft, market, probe>>

-----------------------------------------------------------------------------
(* Bounds of the model *)
MaxTicks == 2        \* timer ticks in a behaviour that starts from a fresh process
WarmBudget == 1      \* ticks, snapshots and commands (each) in a behaviour from the warm state
MaxSnapshots == 2    \* pair snapshots returned by the search API in a behaviour
MaxBatch == 2        \* pairs in one search response
MaxPrice == 3        \* prices are 1..MaxPrice
MaxRows == 3         \* rows of the table update_peak_price is called on by itself
MaxCommands == 2     \* /start and /stop commands in a behaviour
NumChats == 2        \* chats that may subscribe
FairBudget == 1      \* snapshots and commands (each) in a behaviour under fairness
SendBudget == 1      \* ticks, snapshots and commands (each) in a behaviour about the send loop
TrackBudget == 1     \* ticks, snapshots and commands (each) in a behaviour about a tracker run
ExtraRows == 1       \* calls in the table beyond the RecentLimit a run lists
MaxPool == 3         \* snapshots in the pool of a category search
ScanBudget == 1      \* ticks and commands (each) in a behaviour over the wider market
ScanSnapshots == 3   \* pair snapshots returned in a behaviour over the wider market

(* Program constants *)
DedupCapacity == 100   \* len(alerted_tokens) > 100
RecentLimit == 20      \* get_recent_calls(limit=20)
NumTerms == 4          \* search_terms = ['pump', 'raydium', 'orca', 'meteora']
BatchLimit == 20       \* solana_pairs[:20]

Chats == 1..NumChats
Cycles == 1..MaxTicks
Prices == 1..MaxPrice

None == "None"

Min(a, b) == IF a < b THEN a ELSE b
Max(a, b) == IF a < b THEN b ELSE a

-----------------------------------------------------------------------------
(* Numbers as the API delivers them: a field float() parses, or one it     *)
(* rejects (null, a non-numeric string).                                   *)
Num(v) == [ok |-> TRUE, v |-> v]
BadNum == [ok |-> FALSE, v |-> 0]

(* Non-integer floats (volume * 0.5, volume / buys) as exact fractions.    *)
Rat(n, d) == [n |-> n, d |-> d]
RatGE(r, k) == r.n >= k * r.d
RatLT(r, k) == r.n < k * r.d
RatLess(a, b) == a.n * b.d < b.n * a.d

(* pairCreatedAt: absent (or 0, which Python treats alike), a timestamp,   *)
(* given here by the age in hours it yields against datetime.now(), or a   *)
(* value the arithmetic rejects.                                           *)
NoCreated == [present |-> FALSE, ok |-> TRUE, age |-> 0]
Created(h) == [present |-> TRUE, ok |-> TRUE, age |-> h]
BadCreated == [present |-> TRUE, ok |-> FALSE, age |-> 0]

-----------------------------------------------------------------------------
(* SmartMoneyTracker.calculate_metrics: None, or the metrics of the pair.  *)
NoMetrics ==
    [valid |-> FALSE, recent_buys |-> 0, volume |-> Rat(0, 1), avg_buy |-> Rat(0, 1)]

(* calculate_metrics without the check of the hourly buys *)
calculate_metrics_no_hourly(pair) ==
    IF ~pair.volume5m.ok THEN NoMetrics
    ELSE LET recent_buys == pair.buys5m \div 2
             volume == Rat(pair.volume5m.v, 2)
             avg_buy == IF recent_buys > 0
                        THEN Rat(pair.volume5m.v, 2 * recent_buys) ELSE Rat(0, 1)
         IN  IF recent_buys < 1 \/ RatLT(volume, 50) THEN NoMetrics
             ELSE [valid |-> TRUE, recent_buys |-> recent_buys,
                   volume |-> volume, avg_buy |-> avg_buy]

(* calculate_metrics rejecting a volume of exactly 50 *)
calculate_metrics_strict(pair) ==
    IF pair.buys1h < 5 THEN NoMetrics
    ELSE IF ~pair.volume5m.ok THEN NoMetrics
    ELSE LET recent_buys == pair.buys5m \div 2
             volume == Rat(pair.volume5m.v, 2)
             avg_buy == IF recent_buys > 0
                        THEN Rat(pair.volume5m.v, 2 * recent_buys) ELSE Rat(0, 1)
         IN  IF recent_buys < 1 \/ ~RatLess(Rat(50, 1), volume) THEN NoMetrics
             ELSE [valid |-> TRUE, recent_buys |-> recent_buys,
                   volume |-> volume, avg_buy |-> avg_buy]

calculate_metrics(pair) ==
    IF pair.buys1h < 5 THEN NoMetrics
    ELSE IF ~pair.volume5m.ok THEN NoMetrics       \* float() raises: except, return None
    ELSE LET recent_buys == pair.buys5m \div 2     \* int(buys_5min * 0.5)
             volume == Rat(pair.volume5m.v, 2)     \* volume_5min * 0.5
             avg_buy == IF recent_buys > 0
                        THEN Rat(pair.volume5m.v, 2 * recent_buys)
                        ELSE Rat(0, 1)
         IN  IF recent_buys < 1 \/ RatLT(volume, 50) THEN NoMetrics
             ELSE [valid |-> TRUE, recent_buys |-> recent_buys,
                   volume |-> volume, avg_buy |-> avg_buy]

(* SmartMoneyTracker.TIERS: the thresholds of each tier *)
TIERS ==
    [t \in {"FIRST_CALL", "MEDIUM", "STRONG", "VERY_STRONG"} |->
        CASE t = "FIRST_CALL"  -> [recent_buys |-> 20, volume |-> 3000, avg_buy |-> 50]
          [] t = "MEDIUM"      -> [recent_buys |-> 30, volume |-> 6000, avg_buy |-> 75]
          [] t = "STRONG"      -> [recent_buys |-> 45, volume |-> 10000, avg_buy |-> 100]
          [] t = "VERY_STRONG" -> [recent_buys |-> 80, volume |-> 20000, avg_buy |-> 0]]

(* determine_tier with "and" between the two VERY_STRONG conditions *)
determine_tier_both(metrics) ==
    IF ~metrics.valid THEN None
    ELSE IF metrics.recent_buys >= 80 /\ RatGE(metrics.volume, 20000)
    THEN "VERY_STRONG"
    ELSE IF metrics.recent_buys >= 45 /\ RatGE(metrics.volume, 10000)
               /\ RatGE(metrics.avg_buy, 100)
    THEN "STRONG"
    ELSE IF metrics.recent_buys >= 30 /\ RatGE(metrics.volume, 6000)
               /\ RatGE(metrics.avg_buy, 75)
    THEN "MEDIUM"
    ELSE IF metrics.recent_buys >= 20 /\ RatGE(metrics.volume, 3000)
               /\ RatGE(metrics.avg_buy, 50)
    THEN "FIRST_CALL"
    ELSE None

(* determine_tier with the AND tiers checked from the lowest up *)
determine_tier_lowest_first(metrics) ==
    IF ~metrics.valid THEN None
    ELSE IF metrics.recent_buys >= 80 \/ RatGE(metrics.volume, 20000)
    THEN "VERY_STRONG"
    ELSE IF metrics.recent_buys >= 20 /\ RatGE(metrics.volume, 3000)
               /\ RatGE(metrics.avg_buy, 50)
    THEN "FIRST_CALL"
    ELSE IF metrics.recent_buys >= 30 /\ RatGE(metrics.volume, 6000)
               /\ RatGE(metrics.avg_buy, 75)
    THEN "MEDIUM"
    ELSE IF metrics.recent_buys >= 45 /\ RatGE(metrics.volume, 10000)
               /\ RatGE(metrics.avg_buy, 100)
    THEN "STRONG"
    ELSE None

(* determine_tier with STRONG's avg_buy comparison the wrong way round *)
determine_tier_avg_flipped(metrics) ==
    IF ~metrics.valid THEN None
    ELSE IF metrics.recent_buys >= 80 \/ RatGE(metrics.volume, 20000)
    THEN "VERY_STRONG"
    ELSE IF metrics.recent_buys >= 45 /\ RatGE(metrics.volume, 10000)
               /\ ~RatGE(metrics.avg_buy, 100)
    THEN "STRONG"
    ELSE IF metrics.recent_buys >= 30 /\ RatGE(metrics.volume, 6000)
               /\ RatGE(metrics.avg_buy, 75)
    THEN "MEDIUM"
    ELSE IF metrics.recent_buys >= 20 /\ RatGE(metrics.volume, 3000)
               /\ RatGE(metrics.avg_buy, 50)
    THEN "FIRST_CALL"
    ELSE None

(* SmartMoneyTracker.determine_tier *)
determine_tier(metrics) ==
    IF ~metrics.valid THEN None
    ELSE IF metrics.recent_buys >= 80 \/ RatGE(metrics.volume, 20000)
         THEN "VERY_STRONG"
    ELSE IF metrics.recent_buys >= 45 /\ RatGE(metrics.volume, 10000)
            /\ RatGE(metrics.avg_buy, 100)
         THEN "STRONG"
    ELSE IF metrics.recent_buys >= 30 /\ RatGE(metrics.volume, 6000)
            /\ RatGE(metrics.avg_buy, 75)
         THEN "MEDIUM"
    ELSE IF metrics.recent_buys >= 20 /\ RatGE(metrics.volume, 3000)
            /\ RatGE(metrics.avg_buy, 50)
         THEN "FIRST_CALL"
    ELSE None

(* perform_safety_checks passing the age check of a pair without           *)
(* pairCreatedAt                                                           *)
perform_safety_checks_unknown_age(pair) ==
    IF ~pair.liquidity.ok THEN [liquidity_ok |-> FALSE, age_ok |-> FALSE]
    ELSE [liquidity_ok |-> pair.liquidity.v > 5000,
          age_ok |-> \/ ~pair.pairCreatedAt.present
                     \/ pair.pairCreatedAt.ok /\ pair.pairCreatedAt.age < 240]

(* SmartMoneyTracker.perform_safety_checks: an exception leaves the checks *)
(* not yet computed at False.                                              *)
perform_safety_checks(pair) ==
    IF ~pair.liquidity.ok
    THEN [liquidity_ok |-> FALSE, age_ok |-> FALSE]
    ELSE [liquidity_ok |-> pair.liquidity.v > 5000,
          age_ok |-> /\ pair.pairCreatedAt.present
                     /\ pair.pairCreatedAt.ok
                     /\ pair.pairCreatedAt.age < 240]

(* tier_priority.get(tier, 0) *)
tier_priority(tier) ==
    CASE tier = "VERY_STRONG" -> 4
      [] tier = "STRONG" -> 3
      [] tier = "MEDIUM" -> 2
      [] tier = "FIRST_CALL" -> 1
      [] OTHER -> 0

(* The per-pair loop of scan_for_signals over one response: the signals    *)
(* list after the loop. An exception in the loop body (the float() of the  *)
(* liquidity or the arithmetic on pairCreatedAt in the logging lines)      *)
(* leaves the loop: the except of the search term catches it.              *)
RECURSIVE scan_pairs(_, _, _)
scan_pairs(pairs, alerted, signals) ==
    IF pairs = <<>> THEN signals
    ELSE LET pair == Head(pairs)
             metrics == calculate_metrics(pair)
             tier == determine_tier(metrics)
             safety == perform_safety_checks(pair)
         IN  IF pair.pairAddress \in alerted
                THEN scan_pairs(Tail(pairs), alerted, signals)
             ELSE IF ~metrics.valid
                THEN scan_pairs(Tail(pairs), alerted, signals)
             ELSE IF tier = None
                THEN scan_pairs(Tail(pairs), alerted, signals)
             ELSE IF ~pair.liquidity.ok
                THEN signals
             ELSE IF pair.pairCreatedAt.present /\ ~pair.pairCreatedAt.ok
                THEN signals
             ELSE IF ~safety.liquidity_ok
                THEN scan_pairs(Tail(pairs), alerted, signals)
             ELSE IF ~safety.age_ok
                THEN scan_pairs(Tail(pairs), alerted, signals)
             ELSE scan_pairs(Tail(pairs), alerted,
                      Append(signals,
                          [pair |-> pair, tier |-> tier, metrics |-> metrics,
                           safety |-> safety, priority |-> tier_priority(tier),
                           volume |-> metrics.volume]))

(* The pairs of the batch the same loop never reaches: those after a pair  *)
(* whose float(liquidity) or pair_created / 1000 raises in the logging     *)
(* lines, where the except clause of the term ends the loop.               *)
RECURSIVE unreached_pairs(_, _)
unreached_pairs(pairs, alerted) ==
    IF pairs = <<>> THEN {}
    ELSE LET pair == Head(pairs)
             metrics == calculate_metrics(pair)
             tier == determine_tier(metrics)
         IN  IF pair.pairAddress \in alerted \/ ~metrics.valid \/ tier = None
             THEN unreached_pairs(Tail(pairs), alerted)
             ELSE IF ~pair.liquidity.ok
                       \/ (pair.pairCreatedAt.present /\ ~pair.pairCreatedAt.ok)
             THEN {Tail(pairs)[k].pairAddress : k \in 1..(Len(pairs) - 1)}
             ELSE unreached_pairs(Tail(pairs), alerted)

(* The pairs the same loop skips at "Skipping - Low liquidity" and          *)
(* "Skipping - Too old".                                                   *)
RECURSIVE rejected_pairs(_, _)
rejected_pairs(pairs, alerted) ==
    IF pairs = <<>> THEN {}
    ELSE LET pair == Head(pairs)
             metrics == calculate_metrics(pair)
             tier == determine_tier(metrics)
             safety == perform_safety_checks(pair)
         IN  IF pair.pairAddress \in alerted \/ ~metrics.valid \/ tier = None
             THEN rejected_pairs(Tail(pairs), alerted)
             ELSE IF ~pair.liquidity.ok
                       \/ (pair.pairCreatedAt.present /\ ~pair.pairCreatedAt.ok)
             THEN {}
             ELSE IF ~safety.liquidity_ok \/ ~safety.age_ok
             THEN {pair.pairAddress} \cup rejected_pairs(Tail(pairs), alerted)
             ELSE rejected_pairs(Tail(pairs), alerted)

(* solana_pairs[:20] of the pairs of a response *)
solana_pairs(pairs) ==
    LET sol == SelectSeq(pairs, LAMBDA p : p.chainId = "solana")
    IN  SubSeq(sol, 1, Min(Len(sol), BatchLimit))

(* all_signals.sort(key=(priority, volume), reverse=True): a stable sort,  *)
(* so equal keys keep their order of arrival.                              *)
KeyLess(a, b) ==
    \/ a.priority < b.priority
    \/ a.priority = b.priority /\ RatLess(a.volume, b.volume)

RECURSIVE InsertSignal(_, _)
InsertSignal(x, s) ==
    IF s = <<>> THEN <<x>>
    ELSE IF KeyLess(Head(s), x) THEN <<x>> \o s
    ELSE <<Head(s)>> \o InsertSignal(x, Tail(s))

RECURSIVE sort_signals(_)
sort_signals(s) ==
    IF s = <<>> THEN <<>>
    ELSE InsertSignal(s[Len(s)], sort_signals(SubSeq(s, 1, Len(s) - 1)))

-----------------------------------------------------------------------------
(* The calls table *)

(* save_call with the peak_price column left at 0 *)
save_call_zero_peak(rows, pair_address, initial_price, tier) ==
    Append(rows, [pair_address |-> pair_address, initial_price |-> initial_price,
                  peak_price |-> 0, tier |-> tier])

(* save_call: one INSERT, peak_price = initial_price *)
save_call(rows, pair_address, initial_price, tier) ==
    Append(rows, [pair_address |-> pair_address, initial_price |-> initial_price,
                  peak_price |-> initial_price, tier |-> tier])

(* update_peak_price without "AND peak_price < ?" *)
update_peak_price_unchecked(rows, pair_address, new_peak) ==
    [i \in 1..Len(rows) |->
        IF rows[i].pair_address = pair_address
        THEN [rows[i] EXCEPT !.peak_price = new_peak]
        ELSE rows[i]]

(* update_peak_price with the comparison the wrong way round *)
update_peak_price_inverted(rows, pair_address, new_peak) ==
    [i \in 1..Len(rows) |->
        IF rows[i].pair_address = pair_address /\ rows[i].peak_price > new_peak
        THEN [rows[i] EXCEPT !.peak_price = new_peak]
        ELSE rows[i]]

(* update_peak_price that also moves initial_price to the new price *)
update_peak_price_rebased(rows, pair_address, new_peak) ==
    [i \in 1..Len(rows) |->
        IF rows[i].pair_address = pair_address /\ rows[i].peak_price < new_peak
        THEN [rows[i] EXCEPT !.peak_price = new_peak, !.initial_price = new_peak]
        ELSE rows[i]]

(* update_peak_price: UPDATE calls SET peak_price = new_peak
   WHERE pair_address = ? AND peak_price < new_peak *)
update_peak_price(rows, pair_address, new_peak) ==
    [i \in 1..Len(rows) |->
        IF rows[i].pair_address = pair_address /\ rows[i].peak_price < new_peak
        THEN [rows[i] EXCEPT !.peak_price = new_peak]
        ELSE rows[i]]

(* update_peak_price returning True whatever the UPDATE changed *)
update_peak_price_result_always(rows, pair_address, new_peak) == TRUE

(* update_peak_price: affected = cursor.rowcount; return affected > 0 *)
update_peak_price_result(rows, pair_address, new_peak) ==
    Cardinality({i \in 1..Len(rows) :
                    rows[i].pair_address = pair_address
                       /\ rows[i].peak_price < new_peak}) > 0

(* get_recent_calls(limit): the newest rows first, at most limit of them.  *)
(* id is the row's place in the table, kept to tell rows apart.            *)
get_recent_calls(rows, limit) ==
    [k \in 1..Min(Len(rows), limit) |->
        LET i == Len(rows) + 1 - k
        IN  [id |-> i, pair_address |-> rows[i].pair_address,
             peak_price |-> rows[i].peak_price]]

-----------------------------------------------------------------------------
(* The environment: what the search API, the pairs API and the chats may   *)
(* deliver.                                                                *)

(* Pair addresses: 1..DedupCapacity are pairs alerted in the past, the     *)
(* others are the pairs the search API returns.                            *)
PairA == [pairAddress |-> DedupCapacity + 1, chainId |-> "solana",
          buys5m |-> 100, buys1h |-> 50, volume5m |-> Num(24000),
          liquidity |-> Num(9000), pairCreatedAt |-> Created(5),
          priceUsd |-> Num(2), marketCap |-> Num(50000)]   \* STRONG
PairB == [pairAddress |-> DedupCapacity + 2, chainId |-> "solana",
          buys5m |-> 200, buys1h |-> 90, volume5m |-> Num(18000),
          liquidity |-> Num(7000), pairCreatedAt |-> Created(30),
          priceUsd |-> Num(1), marketCap |-> Num(80000)]   \* VERY_STRONG
PairBNoPrice == [PairB EXCEPT !.priceUsd = BadNum]   \* priceUsd: null

Catalogue == {PairA, PairB, PairBNoPrice}

(* Snapshots on both sides of the ranking and of the safety filter: every  *)
(* one but PairWeak and PairQuiet has the figures of a tier.               *)
PairC == [PairA EXCEPT !.pairAddress = DedupCapacity + 3,
                       !.volume5m = Num(22000), !.priceUsd = Num(3)]  \* STRONG, volume 11000
PairLowLiquidity == [PairB EXCEPT !.pairAddress = DedupCapacity + 4,
                                  !.liquidity = Num(5000)]
PairNoCreated == [PairB EXCEPT !.pairAddress = DedupCapacity + 5,
                               !.pairCreatedAt = NoCreated]
PairOld == [PairB EXCEPT !.pairAddress = DedupCapacity + 6,
                         !.pairCreatedAt = Created(240)]
PairQuiet == [PairB EXCEPT !.pairAddress = DedupCapacity + 7, !.buys1h = 4]
PairWeak == [PairA EXCEPT !.pairAddress = DedupCapacity + 8, !.buys5m = 20]
PairBadLiquidity == [PairB EXCEPT !.pairAddress = DedupCapacity + 9,
                                  !.liquidity = BadNum]   \* liquidity.usd: null

ScanMarket ==
    {PairA, PairB, PairBNoPrice, PairC, PairLowLiquidity, PairNoCreated, PairOld,
     PairQuiet, PairWeak, PairBadLiquidity}

RECURSIVE SeqsUpTo(_, _)
SeqsUpTo(S, n) ==
    IF n = 0 THEN {<<>>}
    ELSE LET shorter == SeqsUpTo(S, n - 1)
         IN  shorter \cup {Append(s, x) : s \in shorter, x \in S}

(* A search response: an exception or a status other than 200, or a list   *)
(* of at most n pairs; for a term the API is down for, the failure only.   *)
SearchResponses(term, n) ==
    {[ok |-> FALSE, pairs |-> <<>>]}
        \cup IF term \in market.down THEN {}
             ELSE {[ok |-> TRUE, pairs |-> s] :
                      s \in SeqsUpTo(market.pairs, Min(n, MaxBatch))}

(* A pairs response: a failure (exception, status, no 'pair', a price      *)
(* float() rejects; a missing price reads as 0 and is above no peak), or a *)
(* price.                                                                  *)
PeakResponses ==
    {[ok |-> FALSE, price |-> 0]} \cup {[ok |-> TRUE, price |-> p] : p \in Prices}

(* The pairs responses for one pair address, in this market. *)
PairsResponses(pair_address) ==
    IF pair_address \in market.failing THEN {[ok |-> FALSE, price |-> 0]}
    ELSE IF market.quote # 0 THEN {[ok |-> TRUE, price |-> market.quote]}
    ELSE PeakResponses

-----------------------------------------------------------------------------
(* Task records *)
NoProbe ==
    [kind |-> "none", pair |-> PairA, metrics |-> NoMetrics, tier |-> None,
     signals |-> <<>>,
     pair_address |-> 0, new_peak |-> 0,   \* arguments of update_peak_price
     before |-> <<>>, between |-> <<>>,    \* the table before the first and the second call
     returned |-> <<>>,                    \* the values the calls returned
     candidates |-> <<>>, alreadyShown |-> {},  \* arguments of selectForCategory
     selected |-> 0]                       \* the id of the snapshot it returned, 0 for none

IdleCycle ==
    [pc |-> "idle", term |-> 0, all_signals |-> <<>>,
     cur |-> 0, visited |-> {}, size0 |-> 0,
     found |-> 0,      \* history: len(all_signals) when the cycle chose its best signal
     alerts |-> 0,     \* history: calls the cycle saved
     rejected |-> {},  \* history, while the cycle runs: pairs skipped for liquidity or age
     unreached |-> {}, \* history, while the cycle runs: pairs of a batch the loop left before reaching
     steady |-> {}]    \* history, during the send loop: chats subscribed since the loop started
IdleRun ==
    [pc |-> "idle", recent_calls |-> <<>>, idx |-> 0,
     n0 |-> 0,               \* history: rows in the table when the list was read
     blocked |-> FALSE,      \* history: issued a write the WHERE clause refused for the listed row
     touchedFresh |-> FALSE] \* history: changed a row inserted after the list was read

(* a finished task keeps only its history *)
Finished(cy) ==
    [IdleCycle EXCEPT !.pc = "done", !.found = cy.found, !.alerts = cy.alerts]
FinishedRun(ru) ==
    [IdleRun EXCEPT !.pc = "done", !.n0 = ru.n0, !.blocked = ru.blocked,
                    !.touchedFresh = ru.touchedFresh]

(* an exception that leaves scan_for_signals *)
outer_except_raise(cy) == [Finished(cy) EXCEPT !.pc = "raised"]

(* except Exception at the end of scan_for_signals: print, and return *)
outer_except(cy) == Finished(cy)

Running(cy) == cy.pc \in {"fetch", "alert", "send"}

(* The calls table a process finds at start: the file survives restarts.   *)
OldCall(p, initial, peak) ==
    [pair_address |-> p, initial_price |-> initial, peak_price |-> peak, tier |-> "MEDIUM"]

(* A fresh process: no chat has sent /start, nothing is marked; the table  *)
(* is empty or holds a call of an earlier run of the process.              *)
Init ==
    /\ alerted_tokens = {}
    /\ recorded = <<>>
    /\ calls \in {<<>>, <<OldCall(PairA.pairAddress, 1, 1)>>}
    /\ issuedMax = [i \in 1..Len(calls) |-> calls[i].peak_price]
    /\ bot_data = [has_active_chats |-> FALSE, active_chats |-> {}]
    /\ cycle = [c \in Cycles |-> IdleCycle]
    /\ run = [c \in Cycles |-> IdleRun]
    /\ ticksLeft = MaxTicks
    /\ snapsLeft = MaxSnapshots
    /\ cmdsLeft = MaxCommands
    /\ market = [pairs |-> Catalogue, down |-> {}, blocked |-> {},
                 failing |-> {}, quote |-> 0]
    /\ probe = NoProbe

-----------------------------------------------------------------------------
(* /start: context.bot_data['active_chats'].add(chat_id) *)
start(chat) ==
    /\ cmdsLeft > 0
    /\ cmdsLeft' = cmdsLeft - 1
    /\ bot_data' = [has_active_chats |-> TRUE,
                    active_chats |-> bot_data.active_chats \cup {chat}]
    /\ UNCHANGED <<alerted_tokens, recorded, calls, issuedMax, cycle, run,
                   ticksLeft, snapsLeft, market, probe>>

(* /stop: context.bot_data['active_chats'].discard(chat_id) *)
stop(chat) ==
    /\ cmdsLeft > 0
    /\ cmdsLeft' = cmdsLeft - 1
    /\ bot_data' = [bot_data EXCEPT !.active_chats = @ \ {chat}]
    /\ cycle' = [c \in Cycles |-> [cycle[c] EXCEPT !.steady = @ \ {chat}]]
    /\ UNCHANGED <<alerted_tokens, recorded, calls, issuedMax, run,
                   ticksLeft, snapsLeft, market, probe>>

(* the two checks without the one for an empty set *)
after_chat_checks_key_only(cy, data) ==
    IF ~data.has_active_chats
    THEN Finished(cy)
    ELSE [cy EXCEPT !.pc = "fetch", !.term = 1]

(* if 'active_chats' not in context.bot_data: return; if not active_chats: *)
(* return; otherwise the cycle goes on to its first query                  *)
after_chat_checks(cy, data) ==
    IF ~data.has_active_chats \/ data.active_chats = {}
    THEN Finished(cy)
    ELSE [cy EXCEPT !.pc = "fetch", !.term = 1]

(* The job queue calls scan_for_signals: the code up to the first          *)
(* session.get. main() registers the job with run_repeating and nothing    *)
(* in the callback looks at a cycle already running.                       *)
Tick(c) ==
    /\ ticksLeft > 0
    /\ cycle[c].pc = "idle"
    /\ \A d \in Cycles : d < c => cycle[d].pc # "idle"
    /\ \A d \in Cycles : run[d].pc # "spawned"
    /\ ticksLeft' = ticksLeft - 1
    /\ run' = [run EXCEPT ![c] = [IdleRun EXCEPT !.pc = "spawned"]]
    /\ cycle' = [cycle EXCEPT ![c] = after_chat_checks(@, bot_data)]
    /\ UNCHANGED <<alerted_tokens, recorded, calls, issuedMax, bot_data,
                   snapsLeft, cmdsLeft, market, probe>>

(* a failed query that leaves the loop over the search terms *)
after_term_abort(cy, ok) ==
    IF ok
    THEN [cy EXCEPT !.term = IF @ = NumTerms THEN 0 ELSE @ + 1,
                    !.pc = IF cy.term = NumTerms THEN "alert" ELSE "fetch"]
    ELSE [cy EXCEPT !.term = 0, !.pc = "alert"]

(* The end of one turn of "for term in search_terms": the except clause    *)
(* of the turn has swallowed a failure of the query, and after the sleep   *)
(* the loop goes to the next term, or past the loop after the last one.    *)
after_term(cy, ok) ==
    [cy EXCEPT !.term = IF @ = NumTerms THEN 0 ELSE @ + 1,
               !.pc = IF cy.term = NumTerms THEN "alert" ELSE "fetch"]

(* The response of one search term arrives: the pairs loop, then the       *)
(* sleep before the next term.                                             *)
Fetch(c) ==
    /\ cycle[c].pc = "fetch"
    /\ run[c].pc # "spawned"
    /\ \E resp \in SearchResponses(cycle[c].term, snapsLeft) :
          /\ snapsLeft' = snapsLeft - Len(resp.pairs)
          /\ cycle' = [cycle EXCEPT ![c] =
                after_term(
                    [@ EXCEPT
                       !.all_signals =
                           IF resp.ok
                           THEN scan_pairs(solana_pairs(resp.pairs), alerted_tokens, @)
                           ELSE @,
                       !.rejected =
                           IF resp.ok
                           THEN @ \cup rejected_pairs(solana_pairs(resp.pairs),
                                                      alerted_tokens)
                           ELSE @,
                       !.unreached =
                           IF resp.ok
                           THEN @ \cup unreached_pairs(solana_pairs(resp.pairs),
                                                       alerted_tokens)
                           ELSE @],
                    resp.ok)]
    /\ UNCHANGED <<alerted_tokens, recorded, calls, issuedMax, bot_data, run,
                   ticksLeft, cmdsLeft, market, probe>>

(* the first signal found, without the sort *)
best_signal_first(signals) == signals[1]

(* best_signal = all_signals[0] after the sort *)
best_signal(signals) == sort_signals(signals)[1]

(* marking every signal of the cycle instead of the best one *)
mark_alerted_all(alerted, best, signals) ==
    alerted \cup {signals[k].pair.pairAddress : k \in 1..Len(signals)}

(* SmartMoneyTracker.alerted_tokens.add(pair_address) *)
mark_alerted(alerted, best, signals) == alerted \cup {best.pair.pairAddress}

(* The alert write: float(priceUsd), then save_call. It raises when the    *)
(* price does not parse or the INSERT fails (dbOk false: the store is      *)
(* unavailable, or a NOT NULL column got None).                            *)
write_ok(best, dbOk) == best.pair.priceUsd.ok /\ dbOk

(* if len(alerted_tokens) > 100: temp = list(alerted_tokens); temp.pop(0):
   the first element in the iteration order of a set, which is the order
   of the hash table and not the order of insertion: any element. *)
trim_alerted(alerted, victim) ==
    IF Cardinality(alerted) > DedupCapacity THEN alerted \ {victim} ELSE alerted

(* format_signal_alert: its float() calls raise on a field they reject;    *)
(* the outer except then ends the cycle before the send loop.              *)
format_ok(pair) == pair.liquidity.ok /\ pair.marketCap.ok /\ pair.priceUsd.ok

Victims(alerted) ==
    IF Cardinality(alerted) > DedupCapacity THEN alerted ELSE {0}

(* for chat_id in active_chats: the iterator's next element; 0 when the    *)
(* loop ends, by exhaustion or by the RuntimeError of a set that changed   *)
(* size during iteration (caught by the outer except).                     *)
NextChats(visited, size0) ==
    IF Cardinality(bot_data.active_chats) # size0
          \/ bot_data.active_chats \ visited = {}
    THEN {0}
    ELSE bot_data.active_chats \ visited

(* After the last search term: sort, pick the best signal, mark it, save   *)
(* the call, trim the dedup set, format the message and start the send     *)
(* loop. No await separates these lines.                                   *)
Alert(c) ==
    /\ cycle[c].pc = "alert"
    /\ IF cycle[c].all_signals = <<>>
       THEN /\ cycle' = [cycle EXCEPT ![c] = Finished(@)]
            /\ UNCHANGED <<alerted_tokens, recorded, calls, issuedMax>>
       ELSE LET best == best_signal(cycle[c].all_signals)
                pair_address == best.pair.pairAddress
                marked == mark_alerted(alerted_tokens, best, cycle[c].all_signals)
                found == Len(cycle[c].all_signals)
            IN  \E dbOk \in BOOLEAN :
                  IF ~write_ok(best, dbOk)
                  THEN /\ alerted_tokens' = marked
                       /\ recorded' = IF pair_address \in alerted_tokens
                                      THEN recorded ELSE Append(recorded, pair_address)
                       /\ cycle' = [cycle EXCEPT ![c] =
                                      outer_except([@ EXCEPT !.found = found])]
                       /\ UNCHANGED <<calls, issuedMax>>
                  ELSE \E victim \in Victims(marked) :
                       \E first \in NextChats({}, Cardinality(bot_data.active_chats)) :
                       /\ alerted_tokens' = trim_alerted(marked, victim)
                       /\ recorded' = IF pair_address \in alerted_tokens
                                      THEN recorded ELSE Append(recorded, pair_address)
                       /\ calls' = save_call(calls, pair_address, best.pair.priceUsd.v,
                                             best.tier)
                       /\ issuedMax' = Append(issuedMax, best.pair.priceUsd.v)
                       /\ cycle' = [cycle EXCEPT ![c] =
                            LET counted == [@ EXCEPT
                                              !.found = found,
                                              !.alerts = @ + Len(calls') - Len(calls)]
                            IN  IF ~format_ok(best.pair)
                                THEN outer_except(counted)
                                ELSE IF first = 0
                                THEN Finished(counted)
                                ELSE [counted EXCEPT
                                        !.pc = "send",
                                        !.all_signals = sort_signals(@),
                                        !.cur = first, !.visited = {first},
                                        !.size0 = Cardinality(bot_data.active_chats),
                                        !.steady = bot_data.active_chats]]
    /\ UNCHANGED <<bot_data, run, ticksLeft, snapsLeft, cmdsLeft, market, probe>>

(* send_message: it returns, or it raises (a chat that has blocked the bot *)
(* always makes it raise)                                                  *)
SendOutcomes(chat) == IF chat \in market.blocked THEN {FALSE} ELSE BOOLEAN

(* the send loop without the try / except around send_message *)
after_send_unguarded(cy, ok, nxt) ==
    IF ~ok THEN outer_except(cy)
    ELSE IF nxt # 0
    THEN [cy EXCEPT !.cur = nxt, !.visited = @ \cup {nxt}]
    ELSE IF Cardinality(bot_data.active_chats) # cy.size0
    THEN outer_except(cy)
    ELSE Finished(cy)

(* One turn of "for chat_id in active_chats" ends: a send that raised is   *)
(* caught by the except of the turn, which prints and goes on; the loop    *)
(* takes its next chat or ends.                                            *)
after_send(cy, ok, nxt) ==
    IF nxt # 0
    THEN [cy EXCEPT !.cur = nxt, !.visited = @ \cup {nxt}]
    ELSE IF Cardinality(bot_data.active_chats) # cy.size0
    THEN outer_except(cy)     \* RuntimeError: set changed size
    ELSE Finished(cy)

(* context.bot.send_message to the current chat returned or raised: the    *)
(* loop takes its next chat.                                               *)
Send(c) ==
    /\ cycle[c].pc = "send"
    /\ \E ok \in SendOutcomes(cycle[c].cur) :
       \E nxt \in NextChats(cycle[c].visited, cycle[c].size0) :
          cycle' = [cycle EXCEPT ![c] = after_send(@, ok, nxt)]
    /\ UNCHANGED <<alerted_tokens, recorded, calls, issuedMax, bot_data, run,
                   ticksLeft, snapsLeft, cmdsLeft, market, probe>>

(* The task asyncio.create_task(update_peak_prices()) made starts: it      *)
(* reads its list of recent calls and sends the first request.             *)
PeakStart(r) ==
    /\ run[r].pc = "spawned"
    /\ LET recent_calls == get_recent_calls(calls, RecentLimit)
       IN  run' = [run EXCEPT ![r] =
                IF recent_calls = <<>>
                THEN FinishedRun([@ EXCEPT !.n0 = Len(calls)])
                ELSE [@ EXCEPT !.pc = "fetch", !.recent_calls = recent_calls,
                               !.idx = 1, !.n0 = Len(calls)]]
    /\ UNCHANGED <<alerted_tokens, recorded, calls, issuedMax, bot_data, cycle,
                   ticksLeft, snapsLeft, cmdsLeft, market, probe>>

(* if current_price > call.get('peak_price', 0): the comparison is with    *)
(* the peak of the task's own list.                                        *)
write_issued(call, resp) == resp.ok /\ resp.price > call.peak_price

(* the loop of update_peak_prices without the try / except of a turn: a    *)
(* failure lands in the outer except, which ends the run                   *)
next_call_abort(ru, ok) ==
    IF ~ok \/ ru.idx = Len(ru.recent_calls) THEN FinishedRun(ru)
    ELSE [ru EXCEPT !.idx = @ + 1]

(* for call in recent_calls: after a turn, failed (the except of the turn  *)
(* prints) or not, the next call of the list, or the end of the run.       *)
next_call(ru, ok) ==
    IF ru.idx = Len(ru.recent_calls) THEN FinishedRun(ru)
    ELSE [ru EXCEPT !.idx = @ + 1]

(* The pairs response for the current call of the list arrives: the        *)
(* update when the price is above the listed peak, then the next call.     *)
(* (Every row has a pair address: the column is NOT NULL.)                 *)
PeakFetch(r) ==
    /\ run[r].pc = "fetch"
    /\ LET call == run[r].recent_calls[run[r].idx]
       IN  \E resp \in PairsResponses(call.pair_address) :
             /\ calls' = IF write_issued(call, resp)
                         THEN update_peak_price(calls, call.pair_address, resp.price)
                         ELSE calls
             /\ issuedMax' =
                    IF write_issued(call, resp)
                    THEN [i \in 1..Len(calls) |->
                            IF calls[i].pair_address = call.pair_address
                            THEN Max(issuedMax[i], resp.price) ELSE issuedMax[i]]
                    ELSE issuedMax
             /\ run' = [run EXCEPT ![r] =
                    LET noted == [@ EXCEPT
                            !.blocked = @ \/ (/\ write_issued(call, resp)
                                              /\ calls[call.id].peak_price >= resp.price),
                            !.touchedFresh = @ \/ \E i \in 1..Len(calls) :
                                                    i > run[r].n0 /\ calls'[i] # calls[i]]
                    IN  next_call(noted, resp.ok)]
    /\ UNCHANGED <<alerted_tokens, recorded, bot_data, cycle,
                   ticksLeft, snapsLeft, cmdsLeft, market, probe>>

Next ==
    \/ \E chat \in Chats : start(chat)
    \/ \E chat \in Chats : stop(chat)
    \/ \E c \in Cycles : Tick(c)
    \/ \E c \in Cycles : Fetch(c)
    \/ \E c \in Cycles : Alert(c)
    \/ \E c \in Cycles : Send(c)
    \/ \E r \in Cycles : PeakStart(r)
    \/ \E r \in Cycles : PeakFetch(r)

Spec == Init /\ [][Next]_vars

(* The warm state: a process that has alerted DedupCapacity pairs, one per *)
(* cycle, each call saved and its peak since raised to MaxPrice; one chat  *)
(* is subscribed.                                                          *)
InitWarm ==
    /\ alerted_tokens = 1..DedupCapacity
    /\ recorded = [i \in 1..DedupCapacity |-> i]
    /\ calls = [i \in 1..DedupCapacity |-> OldCall(i, 1, MaxPrice)]
    /\ issuedMax = [i \in 1..DedupCapacity |-> MaxPrice]
    /\ bot_data = [has_active_chats |-> TRUE, active_chats |-> {1}]
    /\ cycle = [c \in Cycles |-> IdleCycle]
    /\ run = [c \in Cycles |-> IdleRun]
    /\ ticksLeft = WarmBudget
    /\ snapsLeft = WarmBudget
    /\ cmdsLeft = WarmBudget
    /\ market = [pairs |-> Catalogue, down |-> {}, blocked |-> {},
                 failing |-> {}, quote |-> 0]
    /\ probe = NoProbe

SpecWarm == InitWarm /\ [][Next]_vars

(* The steps the event loop takes by itself: the job queue fires the timer *)
(* as long as ticks remain, every request ends with a response or with an  *)
(* error, and a task whose await has completed is resumed.                 *)
LoopStep ==
    \E c \in Cycles :
        Tick(c) \/ Fetch(c) \/ Alert(c) \/ Send(c) \/ PeakStart(c) \/ PeakFetch(c)

(* Two ticks with one chat subscribed, over snapshots that make each kind  *)
(* of step fail: a query (any response may be the failure), a candidate    *)
(* (PairBadLiquidity), the alert write (PairBNoPrice, or the store), a     *)
(* send (any), the send loop (a /stop while it runs).                      *)
InitFair ==
    /\ alerted_tokens = {}
    /\ recorded = <<>>
    /\ calls = <<OldCall(PairA.pairAddress, 1, 1)>>
    /\ issuedMax = <<1>>
    /\ bot_data = [has_active_chats |-> TRUE, active_chats |-> {1}]
    /\ cycle = [c \in Cycles |-> IdleCycle]
    /\ run = [c \in Cycles |-> IdleRun]
    /\ ticksLeft = MaxTicks
    /\ snapsLeft = FairBudget
    /\ cmdsLeft = FairBudget
    /\ market = [pairs |-> {PairA, PairBNoPrice, PairBadLiquidity}, down |-> {}, blocked |-> {},
                 failing |-> {}, quote |-> 0]
    /\ probe = NoProbe

SpecFair == InitFair /\ [][Next]_vars /\ WF_vars(LoopStep)

(* One tick with two chats subscribed, the first of which has blocked the  *)
(* bot, and one command still to arrive.                                   *)
InitSend ==
    /\ alerted_tokens = {}
    /\ recorded = <<>>
    /\ calls = <<OldCall(PairA.pairAddress, 1, 1)>>
    /\ issuedMax = <<1>>
    /\ bot_data = [has_active_chats |-> TRUE, active_chats |-> {1, 2}]
    /\ cycle = [c \in Cycles |-> IdleCycle]
    /\ run = [c \in Cycles |-> IdleRun]
    /\ ticksLeft = SendBudget
    /\ snapsLeft = SendBudget
    /\ cmdsLeft = SendBudget
    /\ market = [pairs |-> {PairA, PairB}, down |-> {}, blocked |-> {1},
                 failing |-> {}, quote |-> 0]
    /\ probe = NoProbe

SpecSend == InitSend /\ [][Next]_vars

(* The steps of the peak tracker runs *)
RunStep == \E r \in Cycles : PeakStart(r) \/ PeakFetch(r)

(* A process that finds more calls in its table than a run lists, each at  *)
(* its initial price; the pairs API fails for some of the newest calls and *)
(* quotes one price for the others.                                        *)
InitTrack ==
    /\ alerted_tokens = {}
    /\ recorded = <<>>
    /\ calls = [i \in 1..(RecentLimit + ExtraRows) |-> OldCall(i, 1, 1)]
    /\ issuedMax = [i \in 1..(RecentLimit + ExtraRows) |-> 1]
    /\ bot_data = [has_active_chats |-> TRUE, active_chats |-> {1}]
    /\ cycle = [c \in Cycles |-> IdleCycle]
    /\ run = [c \in Cycles |-> IdleRun]
    /\ ticksLeft = TrackBudget
    /\ snapsLeft = TrackBudget
    /\ cmdsLeft = TrackBudget
    /\ \E failing \in SUBSET {RecentLimit, RecentLimit + ExtraRows} :
       \E quote \in Prices :
          market = [pairs |-> {PairA}, down |-> {}, blocked |-> {},
                    failing |-> failing, quote |-> quote]
    /\ probe = NoProbe

SpecTrack == InitTrack /\ [][Next]_vars /\ WF_vars(RunStep)

(* One scan cycle over the wider market, with the search API down for the *)
(* first term: a process with an empty dedup set, one call in its table    *)
(* and one chat subscribed.                                                *)
InitScan ==
    /\ alerted_tokens = {}
    /\ recorded = <<>>
    /\ calls = <<OldCall(PairA.pairAddress, 1, 1)>>
    /\ issuedMax = <<1>>
    /\ bot_data = [has_active_chats |-> TRUE, active_chats |-> {1}]
    /\ cycle = [c \in Cycles |-> IdleCycle]
    /\ run = [c \in Cycles |-> IdleRun]
    /\ ticksLeft = ScanBudget
    /\ snapsLeft = ScanSnapshots
    /\ cmdsLeft = ScanBudget
    /\ market = [pairs |-> ScanMarket, down |-> {1}, blocked |-> {},
                 failing |-> {}, quote |-> 0]
    /\ probe = NoProbe

SpecScan == InitScan /\ [][Next]_vars

-----------------------------------------------------------------------------
(* determine_tier and calculate_metrics called on their own: the inputs    *)
(* are drawn around the thresholds of the code, and each call stores its   *)
(* result next to its input.                                               *)
Metrics(b, v, a) == [valid |-> TRUE, recent_buys |-> b, volume |-> v, avg_buy |-> a]

MetricsInputs ==
    {NoMetrics} \cup
    {Metrics(b, Rat(v2, 2), Rat(a2, 2)) :
        b \in {10, 20, 25, 30, 45, 50, 79, 80},
        v2 \in {5999, 6000, 8000, 12000, 20000, 24000, 39999, 40000},
        a2 \in {0, 99, 100, 150, 180, 200, 320}}

PairInputs ==
    {[PairA EXCEPT !.buys1h = h, !.buys5m = b, !.volume5m = v] :
        h \in {0, 3, 4, 5, 50},
        b \in {0, 1, 2, 3, 41, 200},
        v \in {Num(0), Num(99), Num(100), Num(101), Num(6000), Num(40000), BadNum}}

InitPure ==
    /\ alerted_tokens = {}
    /\ recorded = <<>>
    /\ calls = <<>>
    /\ issuedMax = <<>>
    /\ bot_data = [has_active_chats |-> FALSE, active_chats |-> {}]
    /\ cycle = [c \in Cycles |-> IdleCycle]
    /\ run = [c \in Cycles |-> IdleRun]
    /\ ticksLeft = 0
    /\ snapsLeft = 0
    /\ cmdsLeft = 0
    /\ market = [pairs |-> {}, down |-> {}, blocked |-> {},
                 failing |-> {}, quote |-> 0]
    /\ probe \in {[NoProbe EXCEPT !.kind = "metrics_in", !.metrics = m] : m \in MetricsInputs}
                  \cup {[NoProbe EXCEPT !.kind = "pair_in", !.pair = p] : p \in PairInputs}

(* tier = SmartMoneyTracker.determine_tier(metrics) *)
CallDetermineTier ==
    /\ probe.kind = "metrics_in"
    /\ probe' = [probe EXCEPT !.kind = "tier", !.tier = determine_tier(probe.metrics)]
    /\ UNCHANGED <<alerted_tokens, recorded, calls, issuedMax, bot_data, cycle, run,
                   ticksLeft, snapsLeft, cmdsLeft, market>>

(* metrics = SmartMoneyTracker.calculate_metrics(pair), the tier the scan  *)
(* loop then asks for, and what the body of the loop adds to an empty      *)
(* all_signals for this pair                                               *)
CallCalculateMetrics ==
    /\ probe.kind = "pair_in"
    /\ probe' = [probe EXCEPT !.kind = "metrics",
                              !.metrics = calculate_metrics(probe.pair),
                              !.tier = determine_tier(calculate_metrics(probe.pair)),
                              !.signals = scan_pairs(<<probe.pair>>, {}, <<>>)]
    /\ UNCHANGED <<alerted_tokens, recorded, calls, issuedMax, bot_data, cycle, run,
                   ticksLeft, snapsLeft, cmdsLeft, market>>

NextPure == CallDetermineTier \/ CallCalculateMetrics

SpecPure == InitPure /\ [][NextPure]_vars

-----------------------------------------------------------------------------
(* update_peak_price called on its own, twice with the same arguments, on  *)
(* tables of up to MaxRows rows of two pairs.                              *)
StoreRows ==
    {OldCall(p, 1, peak) : p \in {PairA.pairAddress, PairB.pairAddress}, peak \in Prices}

InitStore ==
    /\ alerted_tokens = {}
    /\ recorded = <<>>
    /\ calls \in SeqsUpTo(StoreRows, MaxRows)
    /\ issuedMax = [i \in 1..Len(calls) |-> calls[i].peak_price]
    /\ bot_data = [has_active_chats |-> FALSE, active_chats |-> {}]
    /\ cycle = [c \in Cycles |-> IdleCycle]
    /\ run = [c \in Cycles |-> IdleRun]
    /\ ticksLeft = 0
    /\ snapsLeft = 0
    /\ cmdsLeft = 0
    /\ market = [pairs |-> {}, down |-> {}, blocked |-> {},
                 failing |-> {}, quote |-> 0]
    /\ probe \in {[NoProbe EXCEPT !.kind = "store_in", !.pair_address = a, !.new_peak = p] :
                     a \in {PairA.pairAddress, PairB.pairAddress}, p \in Prices}

(* update_peak_price(pair_address, new_peak) *)
CallUpdatePeakPrice ==
    /\ probe.kind \in {"store_in", "updated"}
    /\ calls' = update_peak_price(calls, probe.pair_address, probe.new_peak)
    /\ issuedMax' = [i \in 1..Len(calls) |->
                        IF calls[i].pair_address = probe.pair_address
                        THEN Max(issuedMax[i], probe.new_peak) ELSE issuedMax[i]]
    /\ probe' = [probe EXCEPT
                    !.kind = IF @ = "store_in" THEN "updated" ELSE "updated_twice",
                    !.before = IF probe.kind = "store_in" THEN calls ELSE @,
                    !.between = IF probe.kind = "updated" THEN calls ELSE @,
                    !.returned = Append(@, update_peak_price_result(
                                               calls, probe.pair_address, probe.new_peak))]
    /\ UNCHANGED <<alerted_tokens, recorded, bot_data, cycle, run,
                   ticksLeft, snapsLeft, cmdsLeft, market>>

NextStore == CallUpdatePeakPrice

SpecStore == InitStore /\ [][NextStore]_vars

-----------------------------------------------------------------------------
(* The category-search mode (the Fallback Scorer): the selection among the *)
(* snapshots of a pool under a named filter with ranges on liquidity,      *)
(* valuation and age and a floor on the short-window transaction count.    *)

CategoryFilter ==
    [liquidity |-> [min |-> 1000, max |-> 2500],
     valuation |-> [min |-> 20000, max |-> 100000],
     age |-> [min |-> 1, max |-> 48],
     txns |-> 20]

(* Snapshots: one that meets every bound, one near the liquidity range,    *)
(* one far above it, one without liquidity, one within the valuation range *)
(* only.                                                                   *)
SnapExact == [id |-> 1, liquidity |-> 2000, valuation |-> 50000, age |-> 10, txns |-> 50]
SnapNear  == [id |-> 2, liquidity |-> 800, valuation |-> 500000, age |-> 100, txns |-> 5]
SnapWhale == [id |-> 3, liquidity |-> 6000, valuation |-> 500000, age |-> 100, txns |-> 5]
SnapDust  == [id |-> 4, liquidity |-> 0, valuation |-> 500000, age |-> 100, txns |-> 5]
SnapThin  == [id |-> 5, liquidity |-> 0, valuation |-> 50000, age |-> 100, txns |-> 5]
Snapshots == {SnapExact, SnapNear, SnapWhale, SnapDust, SnapThin}

Within(x, range) == range.min <= x /\ x <= range.max

(* step 1: the snapshot satisfies every configured bound *)
exact_match(snap, filterConfig) ==
    /\ Within(snap.liquidity, filterConfig.liquidity)
    /\ Within(snap.valuation, filterConfig.valuation)
    /\ Within(snap.age, filterConfig.age)
    /\ snap.txns >= filterConfig.txns

(* The liquidity part of the score: 100 within the range, else 50 scaled   *)
(* by one minus the relative distance from the nearer bound, floored at 0. *)
(* The value is kept exact as a multiple of 1 / (min * max).               *)
liquidity_score(liquidity, range) ==
    IF Within(liquidity, range) THEN 100 * range.min * range.max
    ELSE IF liquidity < range.min
    THEN 50 * liquidity * range.max
    ELSE Max(0, 50 * (2 * range.max - liquidity) * range.min)

(* step 2: the additive score of a snapshot (in units of 1 / (min * max)   *)
(* of the liquidity range)                                                 *)
score(snap, filterConfig) ==
    LET unit == filterConfig.liquidity.min * filterConfig.liquidity.max
    IN  liquidity_score(snap.liquidity, filterConfig.liquidity)
        + (IF Within(snap.valuation, filterConfig.valuation) THEN 50 * unit ELSE 0)
        + (IF Within(snap.age, filterConfig.age) THEN 50 * unit ELSE 0)
        + (IF snap.txns >= filterConfig.txns THEN 30 * unit ELSE 0)

(* step 3: the absolute liquidity floor *)
above_floor(snap) == snap.liquidity > 5000

(* the snapshots of the pool not shown yet, in the order of the pool *)
unseen(candidates, alreadyShown) ==
    SelectSeq(candidates, LAMBDA snap : snap.id \notin alreadyShown)

(* the first snapshot of the highest score *)
best_scored(pool, filterConfig) ==
    pool[CHOOSE i \in 1..Len(pool) :
            /\ \A j \in 1..Len(pool) : score(pool[j], filterConfig) <= score(pool[i], filterConfig)
            /\ \A j \in 1..(i - 1) : score(pool[j], filterConfig) < score(pool[i], filterConfig)]

(* selectForCategory without its third step *)
selectForCategory_no_floor(candidates, filterConfig, alreadyShown) ==
    LET pool == unseen(candidates, alreadyShown)
        exact == SelectSeq(pool, LAMBDA snap : exact_match(snap, filterConfig))
    IN  IF exact # <<>> THEN exact[1].id
        ELSE IF pool # <<>> /\ score(best_scored(pool, filterConfig), filterConfig) > 0
        THEN best_scored(pool, filterConfig).id
        ELSE 0

(* selectForCategory(candidates, filterConfig, alreadyShown): the first    *)
(* exact match; else the first snapshot of the highest score; when every   *)
(* score is 0 or the pool is empty, the first snapshot above the liquidity *)
(* floor; else no result (0).                                              *)
selectForCategory(candidates, filterConfig, alreadyShown) ==
    LET pool == unseen(candidates, alreadyShown)
        exact == SelectSeq(pool, LAMBDA snap : exact_match(snap, filterConfig))
        floored == SelectSeq(pool, above_floor)
    IN  IF exact # <<>> THEN exact[1].id
        ELSE IF pool # <<>> /\ score(best_scored(pool, filterConfig), filterConfig) > 0
        THEN best_scored(pool, filterConfig).id
        ELSE IF floored # <<>> THEN floored[1].id
        ELSE 0

InitCategory ==
    /\ alerted_tokens = {}
    /\ recorded = <<>>
    /\ calls = <<>>
    /\ issuedMax = <<>>
    /\ bot_data = [has_active_chats |-> FALSE, active_chats |-> {}]
    /\ cycle = [c \in Cycles |-> IdleCycle]
    /\ run = [c \in Cycles |-> IdleRun]
    /\ ticksLeft = 0
    /\ snapsLeft = 0
    /\ cmdsLeft = 0
    /\ market = [pairs |-> {}, down |-> {}, blocked |-> {},
                 failing |-> {}, quote |-> 0]
    /\ probe \in {[NoProbe EXCEPT !.kind = "category_in", !.candidates = pool,
                                  !.alreadyShown = shown] :
                     pool \in SeqsUpTo(Snapshots, MaxPool),
                     shown \in SUBSET {snap.id : snap \in Snapshots}}

(* selectForCategory(candidates, CategoryFilter, alreadyShown) *)
CallSelectForCategory ==
    /\ probe.kind = "category_in"
    /\ probe' = [probe EXCEPT
                    !.kind = "selected",
                    !.selected = selectForCategory(probe.candidates, CategoryFilter,
                                                   probe.alreadyShown)]
    /\ UNCHANGED <<alerted_tokens, recorded, calls, issuedMax, bot_data, cycle, run,
                   ticksLeft, snapsLeft, cmdsLeft, market>>

NextCategory == CallSelectForCategory

SpecCategory == InitCategory /\ [][NextCategory]_vars

------------------------------------------------------------------------------
(* Properties *)

Rows == 1..Len(calls)
HasCall(p) == \E i \in Rows : calls[i].pair_address = p
RunActs(r) == run[r].pc = "fetch" /\ run'[r] # run[r]

(* C1: no AlertRecord is created for a pair identity that was in the dedup
   set when the cycle saved it: a pair resident in alerted_tokens never
   gets a second AlertRecord. *)
C1_NoCallWhileResident ==
    [][\A i \in (Len(calls) + 1)..Len(calls') :
          calls'[i].pair_address \notin alerted_tokens]_vars

(* C2: a pair identity is in the dedup set only if an AlertRecord for it
   was persisted; a pair whose alert write failed is not marked. *)
C2_MarkedOnlyIfSaved ==
    \A p \in alerted_tokens : HasCall(p)

(* C3: a scan cycle creates at most one AlertRecord and adds at most one
   pair identity to the dedup set: both happen only in the step in which a
   cycle leaves its alert point, at most one of each in that step, and a
   cycle never comes back to its alert point. *)
C3_OneAlertPerCycle ==
    [][/\ Len(calls') <= Len(calls) + 1
       /\ Cardinality(alerted_tokens' \ alerted_tokens) <= 1
       /\ (Len(calls') # Len(calls) \/ alerted_tokens' \ alerted_tokens # {}) =>
             \E c \in Cycles :
                /\ cycle[c].pc = "alert"
                /\ cycle'[c].pc \in {"send", "done"}
                /\ \A d \in Cycles \ {c} : cycle'[d] = cycle[d]
       /\ \A c \in Cycles :
             /\ cycle[c].pc \in {"send", "done"} => cycle'[c].pc \in {"send", "done"}
             /\ cycle'[c].alerts <= 1]_vars

(* a cycle that found several qualifying signals has saved its one call *)
C3_Witness ==
    \E c \in Cycles : cycle[c].found >= 2 /\ cycle[c].alerts = 1

(* C4: scan cycles do not overlap: at no time are two executions of
   scan_for_signals in progress. *)
C4_NoOverlap ==
    Cardinality({c \in Cycles : Running(cycle[c])}) <= 1

(* C5: the dedup set holds at most 100 pair identities in every state. *)
C5_DedupBounded ==
    Cardinality(alerted_tokens) <= DedupCapacity

(* C6: eviction is FIFO: once more than 100 distinct identities have been
   recorded and the set has been trimmed to its capacity, the set holds
   exactly the 100 identities recorded last. *)
C6_FifoEviction ==
    (Len(recorded) > DedupCapacity /\ Cardinality(alerted_tokens) <= DedupCapacity)
        => alerted_tokens =
              {recorded[i] : i \in (Len(recorded) - DedupCapacity + 1)..Len(recorded)}

(* C7: peak_price of every AlertRecord is non-decreasing: no step deletes
   a row or writes a peak lower than the stored one. *)
C7_PeakNeverDecreases ==
    [][\A i \in Rows :
          /\ i <= Len(calls')
          /\ calls'[i].peak_price >= calls[i].peak_price]_vars

(* a peak tracker issued a write with a price not above the stored peak of
   the row it had listed, and that row is above its first price *)
C7_Witness ==
    \E r \in Cycles : \E i \in Rows :
        run[r].blocked /\ calls[i].peak_price > calls[i].initial_price

(* C8: under any interleaving of peak tracker runs, each with its own,
   possibly stale list, the stored peak of every row equals the maximum of
   its first peak and every price a write was issued with for its pair
   since: no higher price is lost to a later lower write. *)
C8_NoLostPeak ==
    \A i \in Rows : calls[i].peak_price = issuedMax[i]

(* a run whose list went stale while another run wrote: the write it
   issued for the first call of its list was refused, the row having been
   raised since the list was read *)
C8_Witness ==
    \E r1, r2 \in Cycles :
        /\ r1 # r2
        /\ run[r1].pc = "done" /\ run[r1].n0 >= 1
        /\ run[r2].pc = "fetch" /\ run[r2].idx = 2 /\ run[r2].blocked

(* C9: a peak tracker run never modifies an AlertRecord created after the
   run read its list, also when the new record has the pair address of a
   record of the list. *)
C9_FreshRowsUntouched ==
    \A r \in Cycles : ~run[r].touchedFresh

(* C9, what the code keeps of it: a step of a peak tracker run changes only
   rows whose pair address is that of the call of its list it is visiting,
   and only by raising their peak_price. *)
C9_OnlyListedPairs ==
    [][\A r \in Cycles : RunActs(r) =>
          \A i \in Rows :
             calls'[i] # calls[i] =>
                /\ calls[i].pair_address
                      = run[r].recent_calls[run[r].idx].pair_address
                /\ calls'[i].peak_price > calls[i].peak_price
                /\ calls'[i] = [calls[i] EXCEPT !.peak_price = calls'[i].peak_price]]_vars

(* C10: every AlertRecord has peak_price >= initial_price. *)
C10_PeakAtLeastInitial ==
    \A i \in Rows : calls[i].peak_price >= calls[i].initial_price

(* a cycle saved a call, and a later write raised its peak *)
C10_Witness ==
    \E c \in Cycles : \E i \in Rows :
        /\ cycle[c].alerts = 1
        /\ i = Len(calls)
        /\ calls[i].peak_price > calls[i].initial_price

(* C11: the store is append-only except for peak_price: no step of a scan
   cycle, of a peak tracker run or of a command handler removes a row or
   changes a row's pair address, initial price or tier; the number of rows
   never decreases. *)
C11_AppendOnly ==
    [][/\ Len(calls') >= Len(calls)
       /\ \A i \in Rows :
             calls'[i] = [calls[i] EXCEPT !.peak_price = calls'[i].peak_price]]_vars

(* a row had its peak raised, and a cycle appended a row after it *)
C11_Witness ==
    \E c \in Cycles : \E i \in Rows :
        /\ cycle[c].alerts = 1
        /\ i < Len(calls)
        /\ calls[i].peak_price > calls[i].initial_price

(* The order of the tiers: NONE < FIRST_CALL < MEDIUM < STRONG < VERY_STRONG *)
TierRank(t) ==
    CASE t = "FIRST_CALL" -> 1 [] t = "MEDIUM" -> 2 [] t = "STRONG" -> 3
      [] t = "VERY_STRONG" -> 4 [] OTHER -> 0

(* The predicate of a tier, from the TIERS table: VERY_STRONG asks for its
   recent_buys or its volume, the other tiers for all three thresholds. *)
Meets(m, t) ==
    IF t = "VERY_STRONG"
    THEN m.recent_buys >= TIERS[t].recent_buys \/ RatGE(m.volume, TIERS[t].volume)
    ELSE /\ m.recent_buys >= TIERS[t].recent_buys
         /\ RatGE(m.volume, TIERS[t].volume)
         /\ RatGE(m.avg_buy, TIERS[t].avg_buy)

Classified == probe.kind = "tier" /\ probe.metrics.valid

(* C12: determine_tier returns VERY_STRONG for every Metrics with
   recent_buys >= 80 or volume >= 20000, whatever its avg_buy. *)
C12_VeryStrongEither ==
    Classified =>
        (probe.metrics.recent_buys >= 80 \/ RatGE(probe.metrics.volume, 20000)
            => probe.tier = "VERY_STRONG")

(* one of the two conditions holds alone, with an avg_buy below every
   threshold, and the result is VERY_STRONG *)
C12_Witness ==
    /\ Classified
    /\ probe.metrics.recent_buys < 80
    /\ RatGE(probe.metrics.volume, 20000)
    /\ RatLT(probe.metrics.avg_buy, 50)
    /\ probe.tier = "VERY_STRONG"

(* C13: determine_tier gives each Metrics the highest tier whose predicate
   it satisfies, and None when it satisfies none; (50, 12000, 90) is
   MEDIUM and (25, 4000, 160) is FIRST_CALL. *)
C13_HighestTier ==
    Classified =>
        LET met == {t \in DOMAIN TIERS : Meets(probe.metrics, t)}
        IN  /\ met = {} => probe.tier = None
            /\ met # {} => /\ probe.tier \in met
                           /\ \A t \in met : TierRank(t) <= TierRank(probe.tier)
            /\ probe.metrics = Metrics(50, Rat(24000, 2), Rat(180, 2))
                  => probe.tier = "MEDIUM"
            /\ probe.metrics = Metrics(25, Rat(8000, 2), Rat(320, 2))
                  => probe.tier = "FIRST_CALL"

(* (50, 12000, 90) meets MEDIUM and FIRST_CALL and was classified MEDIUM *)
C13_Witness ==
    /\ Classified
    /\ probe.metrics = Metrics(50, Rat(24000, 2), Rat(180, 2))
    /\ Meets(probe.metrics, "FIRST_CALL")
    /\ ~Meets(probe.metrics, "STRONG")
    /\ probe.tier = "MEDIUM"

(* n is m with one of the three metrics raised and the other two kept *)
RaisedInOne(m, n) ==
    \/ m.recent_buys < n.recent_buys /\ m.volume = n.volume /\ m.avg_buy = n.avg_buy
    \/ m.recent_buys = n.recent_buys /\ RatLess(m.volume, n.volume) /\ m.avg_buy = n.avg_buy
    \/ m.recent_buys = n.recent_buys /\ m.volume = n.volume /\ RatLess(m.avg_buy, n.avg_buy)

(* C14: the classification is monotonic in each metric taken alone: raising
   one of recent_buys, volume, avg_buy with the other two fixed never
   lowers the tier. *)
C14_Monotonic ==
    Classified =>
        \A n \in MetricsInputs :
            n.valid /\ RaisedInOne(probe.metrics, n)
                => TierRank(determine_tier(n)) >= TierRank(probe.tier)

(* a MEDIUM input one raised metric away from STRONG and, by another
   metric, from an input that stays MEDIUM *)
C14_Witness ==
    /\ Classified
    /\ probe.tier = "MEDIUM"
    /\ \E n \in MetricsInputs :
          n.valid /\ RaisedInOne(probe.metrics, n) /\ determine_tier(n) = "STRONG"
    /\ \E n \in MetricsInputs :
          n.valid /\ RaisedInOne(probe.metrics, n) /\ determine_tier(n) = "MEDIUM"

Extracted == probe.kind = "metrics"

(* C17: calculate_metrics returns None for every snapshot with fewer than 5
   buys in the hour, whatever its 5-minute figures, and the scan loop makes
   no signal of such a snapshot. *)
C17_HourlyFloor ==
    Extracted /\ probe.pair.buys1h < 5
        => ~probe.metrics.valid /\ probe.tier = None /\ probe.signals = <<>>

(* 4 buys in the hour with 5-minute figures that alone would be
   VERY_STRONG: no metrics *)
C17_Witness ==
    /\ Extracted
    /\ probe.pair.buys1h = 4
    /\ probe.pair.buys5m >= 160
    /\ probe.pair.volume5m = Num(40000)
    /\ ~probe.metrics.valid

(* C18: for a snapshot with at least 5 buys in the hour and a numeric
   5-minute volume, recent_buys = floor(buys5m / 2), volume = volume5m / 2,
   avg_buy = volume / recent_buys, and the result is None exactly when
   recent_buys < 1 or volume < 50; returned Metrics have recent_buys >= 1
   and volume >= 50, so no avg_buy comes from a division by zero. *)
C18_MetricsArithmetic ==
    Extracted /\ probe.pair.buys1h >= 5 /\ probe.pair.volume5m.ok
        => LET m == probe.metrics
               b == probe.pair.buys5m
               v == probe.pair.volume5m.v
           IN  /\ ~m.valid <=> (b < 2 \/ v < 100)
               /\ m.valid =>
                     /\ 2 * m.recent_buys <= b /\ b < 2 * m.recent_buys + 2
                     /\ m.volume.d > 0 /\ 2 * m.volume.n = v * m.volume.d
                     /\ m.avg_buy.d > 0
                     /\ m.avg_buy.n * m.recent_buys * m.volume.d
                           = m.volume.n * m.avg_buy.d
                     /\ m.recent_buys >= 1
                     /\ RatGE(m.volume, 50)

(* an odd number of buys and an odd volume: 3 buys and 101 give 1 recent
   buy, volume 50.5 and avg_buy 50.5 *)
C18_Witness ==
    /\ Extracted
    /\ probe.pair.buys5m = 3
    /\ probe.pair.volume5m = Num(101)
    /\ probe.metrics.valid
    /\ probe.metrics.recent_buys = 1
    /\ probe.metrics.avg_buy.n * 2 = 101 * probe.metrics.avg_buy.d

(* a outranks b under (tier priority, window volume), with VERY_STRONG = 4 >
   STRONG = 3 > MEDIUM = 2 > FIRST_CALL = 1 *)
Outranks(a, b) ==
    \/ TierRank(a.tier) > TierRank(b.tier)
    \/ TierRank(a.tier) = TierRank(b.tier) /\ RatLess(b.metrics.volume, a.metrics.volume)

AlertStep(c) ==
    cycle[c].pc = "alert" /\ cycle'[c].pc # "alert" /\ cycle[c].all_signals # <<>>

(* C15: the candidate a cycle alerts is a maximum of the cycle's qualifying
   candidates under (tier priority, window volume): the pair the alert step
   marks, and the pair, tier and price of the call it saves, are those of a
   signal no signal of the cycle outranks. *)
C15_BestIsMaximum ==
    [][\A c \in Cycles : AlertStep(c) =>
          \E k \in 1..Len(cycle[c].all_signals) :
             LET best == cycle[c].all_signals[k]
             IN  /\ \A j \in 1..Len(cycle[c].all_signals) :
                       ~Outranks(cycle[c].all_signals[j], best)
                 /\ alerted_tokens' \ alerted_tokens \subseteq {best.pair.pairAddress}
                 /\ Len(calls') > Len(calls) =>
                       /\ calls'[Len(calls')].pair_address = best.pair.pairAddress
                       /\ calls'[Len(calls')].tier = best.tier
                       /\ calls'[Len(calls')].initial_price = best.pair.priceUsd.v]_vars

(* a cycle found the STRONG pair of volume 11000 and then the VERY_STRONG
   pair of volume 9000, and saved the call of the VERY_STRONG pair *)
C15_Witness ==
    \E c \in Cycles :
        /\ cycle[c].pc = "send"
        /\ cycle[c].alerts = 1
        /\ \E k \in 1..Len(cycle[c].all_signals) :
              /\ cycle[c].all_signals[k].pair = PairC
              /\ cycle[c].all_signals[k].tier = "STRONG"
              /\ cycle[c].all_signals[k].metrics.volume = Rat(22000, 2)
        /\ calls[Len(calls)].pair_address = PairB.pairAddress
        /\ calls[Len(calls)].tier = "VERY_STRONG"
        /\ cycle[c].all_signals[1].metrics.volume = Rat(18000, 2)

(* C16: every call a cycle saves is that of a snapshot which, in the cycle,
   had a liquidity above 5000, a creation timestamp with an age below 240
   hours, and a tier; a snapshot without creation timestamp is never
   alerted. *)
C16_OnlySafeAlerted ==
    [][\A c \in Cycles : AlertStep(c) /\ Len(calls') > Len(calls) =>
          \E k \in 1..Len(cycle[c].all_signals) :
             LET s == cycle[c].all_signals[k]
             IN  /\ calls'[Len(calls')].pair_address = s.pair.pairAddress
                 /\ calls'[Len(calls')].tier = s.tier
                 /\ calls'[Len(calls')].initial_price = s.pair.priceUsd.v
                 /\ s.pair.liquidity.ok /\ s.pair.liquidity.v > 5000
                 /\ s.pair.pairCreatedAt.present /\ s.pair.pairCreatedAt.ok
                 /\ s.pair.pairCreatedAt.age < 240
                 /\ s.tier \in DOMAIN TIERS
                 /\ s.tier = determine_tier(calculate_metrics(s.pair))]_vars

(* a cycle skipped the pair of liquidity 5000 and the pair without
   creation timestamp, both with VERY_STRONG figures, and saved the call
   of another pair *)
C16_Witness ==
    \E c \in Cycles :
        /\ cycle[c].pc = "send"
        /\ cycle[c].alerts = 1
        /\ {PairLowLiquidity.pairAddress, PairNoCreated.pairAddress}
              \subseteq cycle[c].rejected
        /\ calls[Len(calls)].pair_address
              \notin {PairLowLiquidity.pairAddress, PairNoCreated.pairAddress}

(* C19: no failure inside a scan cycle is fatal to the scheduler: whatever
   query, candidate, write or send fails, no exception leaves
   scan_for_signals, every cycle ends, and every tick of the timer starts
   its cycle. *)
C19_CyclesEnd ==
    \A c \in Cycles :
        /\ [](cycle[c].pc # "raised")
        /\ <>(cycle[c].pc = "done")
        /\ (Running(cycle[c]) ~> cycle[c].pc = "done")

(* the alert write of the first cycle failed, the cycle ended, and the
   next tick has started the second cycle *)
C19_Witness ==
    /\ cycle[1].pc = "done"
    /\ cycle[1].found >= 1
    /\ cycle[1].alerts = 0
    /\ cycle[2].pc = "fetch"
    /\ ticksLeft = 0

(* C20: a failed search query (an exception or a status other than 200)
   skips only that query: the step that handles the response of a term
   keeps the signals found so far and goes on to the next term, to the
   alert step after the last one, so the signals of the other terms are
   still ranked and the best one alerted. *)
C20_FailedQuerySkipsItself ==
    [][\A c \in Cycles : cycle[c].pc = "fetch" /\ cycle'[c] # cycle[c] =>
          /\ cycle[c].term \in 1..NumTerms
          /\ cycle[c].term < NumTerms =>
                cycle'[c].pc = "fetch" /\ cycle'[c].term = cycle[c].term + 1
          /\ cycle[c].term = NumTerms => cycle'[c].pc = "alert"
          /\ cycle[c].term \in market.down =>
                cycle'[c].all_signals = cycle[c].all_signals
          /\ Len(cycle'[c].all_signals) >= Len(cycle[c].all_signals)
          /\ SubSeq(cycle'[c].all_signals, 1, Len(cycle[c].all_signals))
                = cycle[c].all_signals]_vars

(* the query of the first term failed, and the cycle has ranked two
   signals of later terms and saved the call of the best *)
C20_Witness ==
    \E c \in Cycles :
        /\ 1 \in market.down
        /\ cycle[c].pc = "send"
        /\ cycle[c].found >= 2
        /\ cycle[c].alerts = 1
        /\ calls[Len(calls)].pair_address = cycle[c].all_signals[1].pair.pairAddress

(* C21: a snapshot with a missing or invalid numeric field skips only that
   candidate: every other snapshot of the same batch, before and after it,
   is still evaluated in the cycle. *)
C21_MalformedSkipsItself ==
    \A c \in Cycles : cycle[c].unreached = {}

(* C23: update_peak_price(pair_address, p) raises peak_price to p on every
   row of that pair whose peak is below p, leaves every other row
   unchanged, and returns true exactly when it changed a row; a second
   call with the same arguments changes nothing and returns false. *)
C23_UpdatePeakPrice ==
    /\ probe.kind \in {"updated", "updated_twice"} =>
          LET after == IF probe.kind = "updated" THEN calls ELSE probe.between
          IN  /\ Len(after) = Len(probe.before)
              /\ \A i \in 1..Len(after) :
                    IF probe.before[i].pair_address = probe.pair_address
                          /\ probe.before[i].peak_price < probe.new_peak
                    THEN /\ after[i].peak_price = probe.new_peak
                         /\ after[i] = [probe.before[i] EXCEPT !.peak_price = probe.new_peak]
                    ELSE after[i] = probe.before[i]
              /\ probe.returned[1] <=> after # probe.before
    /\ probe.kind = "updated_twice" =>
          /\ calls = probe.between
          /\ probe.returned[2] = FALSE

(* two calls on a table with a row of the pair below the new peak, a row
   of the pair at or above it and a row of another pair below it: the
   first call returned true, the second false *)
C23_Witness ==
    /\ probe.kind = "updated_twice"
    /\ probe.returned = <<TRUE, FALSE>>
    /\ \E i, j, k \in 1..Len(probe.before) :
          /\ probe.before[i].pair_address = probe.pair_address
          /\ probe.before[i].peak_price < probe.new_peak
          /\ probe.before[j].pair_address = probe.pair_address
          /\ probe.before[j].peak_price >= probe.new_peak
          /\ probe.before[k].pair_address # probe.pair_address
          /\ probe.before[k].peak_price < probe.new_peak

NoChats == ~bot_data.has_active_chats \/ bot_data.active_chats = {}

(* C24: a scan tick that finds no subscribed chat (active_chats missing or
   empty) ends at once and leaves the dedup set and the calls table
   unchanged: it marks no pair and saves no call, and it has started a
   peak tracker task. *)
C24_NoChatsTick ==
    [][\A c \in Cycles :
          cycle[c].pc = "idle" /\ cycle'[c].pc # "idle" /\ NoChats =>
             /\ cycle'[c].pc = "done"
             /\ cycle'[c].found = 0 /\ cycle'[c].alerts = 0
             /\ alerted_tokens' = alerted_tokens
             /\ calls' = calls
             /\ run[c].pc = "idle" /\ run'[c].pc = "spawned"]_vars

(* a tick found the set of chats empty after a /start and a /stop: its
   cycle is over, its peak tracker task is waiting to start, and the table
   has a call for it to visit *)
C24_Witness ==
    \E c \in Cycles :
        /\ cycle[c].pc = "done"
        /\ run[c].pc = "spawned"
        /\ bot_data.has_active_chats
        /\ bot_data.active_chats = {}
        /\ calls # <<>>


(* the pair the send loop of cycle c announces *)
Winner(c) == cycle[c].all_signals[1].pair.pairAddress

(* the step of cycle c in which a send_message returned or raised *)
SendStep(c) ==
    /\ cycle[c].pc = "send"
    /\ cycle'[c].pc # "send" \/ cycle'[c].visited # cycle[c].visited

(* C25: within an alerting cycle the winner is in the dedup set and its    *)
(* record is in the table in every state of the send loop, from the first  *)
(* send on; a step that ends a send, failed or not, changes neither, and   *)
(* while a subscribed chat remains and the set kept its size the loop goes *)
(* on to one of the remaining chats.                                       *)
C25_MarkedSavedThenSent ==
    /\ [](\A c \in Cycles :
             cycle[c].pc = "send" =>
                /\ cycle[c].alerts = 1
                /\ Winner(c) \in alerted_tokens
                /\ HasCall(Winner(c)))
    /\ [][\A c \in Cycles :
             SendStep(c) =>
                /\ alerted_tokens' = alerted_tokens
                /\ calls' = calls
                /\ (/\ Cardinality(bot_data.active_chats) = cycle[c].size0
                    /\ bot_data.active_chats \ cycle[c].visited # {})
                   => /\ cycle'[c].pc = "send"
                      /\ cycle'[c].cur \in bot_data.active_chats \ cycle[c].visited]_vars

(* the send to chat 1, which has blocked the bot, failed, and the loop is  *)
(* at the send to chat 2 with the winner marked and recorded               *)
C25_Witness ==
    \E c \in Cycles :
        /\ cycle[c].pc = "send"
        /\ 1 \in market.blocked
        /\ cycle[c].visited = {1, 2}
        /\ cycle[c].cur = 2
        /\ Winner(c) \in alerted_tokens
        /\ HasCall(Winner(c))


(* C26: when the send loop of a cycle ends, a send was attempted to every  *)
(* chat that stayed subscribed from the start of the loop to its end, also *)
(* when /start or /stop changed active_chats while the loop was suspended  *)
(* at a send; and the loop only ever sends to a chat that is subscribed    *)
(* at that moment.                                                         *)
C26_SteadyChatsReceive ==
    [][\A c \in Cycles :
          /\ (cycle[c].pc = "send" /\ cycle'[c].pc # "send")
             => cycle[c].steady \subseteq cycle[c].visited
          /\ (cycle'[c].pc = "send" /\ cycle'[c].cur # cycle[c].cur)
             => cycle'[c].cur \in bot_data.active_chats]_vars


(* C27: a Peak Tracker run lists at most the RecentLimit newest calls of   *)
(* the table it read, takes them one by one, each turn moving to the next  *)
(* call whether the fetch failed or not, and ends after the last; a turn   *)
(* whose fetch succeeds with a price above the listed peak leaves the row  *)
(* at that price or above; every spawned run ends.                         *)
C27_RunVisitsListAndEnds ==
    /\ [](\A r \in Cycles :
             run[r].pc = "fetch" =>
                /\ Len(run[r].recent_calls) <= RecentLimit
                /\ Len(run[r].recent_calls) <= run[r].n0
                /\ run[r].idx \in 1..Len(run[r].recent_calls)
                /\ \A k \in 1..Len(run[r].recent_calls) :
                      run[r].recent_calls[k].id = run[r].n0 + 1 - k)
    /\ [][\A r \in Cycles :
             RunActs(r) =>
                LET call == run[r].recent_calls[run[r].idx]
                IN  /\ IF run[r].idx < Len(run[r].recent_calls)
                       THEN /\ run'[r].pc = "fetch"
                            /\ run'[r].idx = run[r].idx + 1
                            /\ run'[r].recent_calls = run[r].recent_calls
                       ELSE run'[r].pc = "done"
                    /\ (/\ call.pair_address \notin market.failing
                        /\ market.quote > call.peak_price)
                       => calls'[call.id].peak_price >= market.quote]_vars
    /\ \A r \in Cycles : (run[r].pc = "spawned") ~> (run[r].pc = "done")

(* a run over a table of more than RecentLimit calls is at the last call   *)
(* of its list, the fetch for its first call failed, and the second call   *)
(* was raised to the quoted price                                          *)
C27_Witness ==
    \E r \in Cycles :
        /\ run[r].pc = "fetch"
        /\ run[r].n0 > RecentLimit
        /\ run[r].idx = RecentLimit
        /\ run[r].recent_calls[1].pair_address \in market.failing
        /\ run[r].recent_calls[2].pair_address \notin market.failing
        /\ calls[run[r].recent_calls[1].id].peak_price = run[r].recent_calls[1].peak_price
        /\ calls[run[r].recent_calls[2].id].peak_price = market.quote
        /\ market.quote > run[r].recent_calls[2].peak_price


(* the pool of a finished category search: its unseen snapshots *)
SearchedPool == unseen(probe.candidates, probe.alreadyShown)

(* a category search returns one of the unseen snapshots of its pool       *)
(* whenever one of them has liquidity above the floor, also when none      *)
(* satisfies every bound of the category                                   *)
FloorGuarantee ==
    probe.kind = "selected" =>
       /\ probe.selected # 0 =>
             \E k \in 1..Len(SearchedPool) : SearchedPool[k].id = probe.selected
       /\ (\E k \in 1..Len(SearchedPool) : above_floor(SearchedPool[k]))
          => probe.selected # 0

(* C22: selectForCategory returns a candidate whenever at least one unseen *)
(* snapshot has liquidity above 5000, also when none satisfies every bound *)
(* of the category, and it returns no result only when the pool of unseen  *)
(* candidates is empty.                                                    *)
C22_FallbackReturns ==
    /\ FloorGuarantee
    /\ (probe.kind = "selected" /\ probe.selected = 0) => SearchedPool = <<>>

====
